---- MODULE Spec2Model ----
(***************************************************************************)
(* A model of src/Morph.py: the Morph engine (reference geometry, start    *)
(* and end profiles, morph_between / generate_profiles, the leg            *)
(* reconstruction _populate_profile) and the sensitivity routine.          *)
(*                                                                         *)
(* Numbers.  The program computes in IEEE doubles.  The model computes in  *)
(* fixed point: a real v is the integer round(v * Scale).  Two reserved    *)
(* values stand for the doubles that are not numbers: Inf (the result of   *)
(* x/0, x # 0) and NaN (the result of 0/0, Inf*0, sqrt of a negative).     *)
(* numpy raises nothing for them, it only warns.                           *)
(*                                                                         *)
(* Splines.  scipy's make_interp_spline (cubic, not-a-knot) reproduces     *)
(* every polynomial of degree <= 3 exactly.  The model draws its control   *)
(* points on a horizontal line and in strict order along it, so the data   *)
(* (cord length, point) are affine and the interpolating spline is the     *)
(* interpolant through the knots computed by SplEval.  Inputs for which    *)
(* the spline is a genuine cubic are outside the enumerated inputs.        *)
(*                                                                         *)
(* Evaluation.  Bind(v, F) is F(v) with v computed once: the intermediate  *)
(* arrays of the program are values, not expressions to be recomputed at   *)
(* every use.                                                              *)
(***************************************************************************)
EXTENDS Integers, Sequences, FiniteSets, TLC

\* Fixed-point resolution: one unit of the program is Scale units here.
Scale == 10 * 10 * 10

\* The doubles that are not numbers.
Inf == 2 ^ 30
NaN == Inf + 1

IsFinite(a) == a < Inf

Abs(a) == IF a = NaN \/ a = Inf THEN a ELSE IF a < 0 THEN -a ELSE a

\* n / d rounded to the nearest integer, d # 0.
RDiv(n, d) ==
    LET s == IF (n < 0) = (d < 0) THEN 1 ELSE -1
        an == IF n < 0 THEN -n ELSE n
        ad == IF d < 0 THEN -d ELSE d
    IN s * ((an + ad \div 2) \div ad)

RECURSIVE ISqrtB(_, _, _)
ISqrtB(n, lo, hi) ==
    IF lo >= hi THEN lo
    ELSE LET mid == (lo + hi + 1) \div 2
         IN IF mid * mid <= n THEN ISqrtB(n, mid, hi) ELSE ISqrtB(n, lo, mid - 1)

\* The integer nearest to sqrt(n), n >= 0.
ISqrt(n) ==
    LET r == ISqrtB(n, 0, 46340)
    IN IF n - r * r > r THEN r + 1 ELSE r

\* Double arithmetic on fixed-point values (numpy semantics for the
\* non-numbers: no exception, the value propagates).
FAdd(a, b) ==
    IF a = NaN \/ b = NaN THEN NaN
    ELSE IF a = Inf \/ b = Inf THEN Inf
    ELSE a + b

FSub(a, b) ==
    IF a = NaN \/ b = NaN THEN NaN
    ELSE IF a = Inf THEN (IF b = Inf THEN NaN ELSE Inf)
    ELSE IF b = Inf THEN -Inf
    ELSE a - b

FMul(a, b) ==
    IF a = NaN \/ b = NaN THEN NaN
    ELSE IF a = Inf \/ b = Inf THEN (IF a = 0 \/ b = 0 THEN NaN ELSE Inf)
    ELSE RDiv(a * b, Scale)

FDiv(a, b) ==
    IF a = NaN \/ b = NaN THEN NaN
    ELSE IF a = Inf THEN (IF b = Inf THEN NaN ELSE Inf)
    ELSE IF b = Inf THEN 0
    ELSE IF b = 0 THEN (IF a = 0 THEN NaN ELSE Inf)
    ELSE RDiv(a * Scale, b)

FSqrt(a) ==
    IF a = NaN THEN NaN
    ELSE IF a = Inf THEN Inf
    ELSE IF a < 0 THEN NaN
    ELSE ISqrt(a * Scale)

\* F(v), with v evaluated once (a local variable of the program).
Bind(v, F(_)) == CHOOSE r \in {F(x) : x \in {v}} : TRUE

\* A sequence held as an array of values (np.array): every entry computed once.
AsArray(f) == <<>> \o f

\* s[::-1]
Rev(s) == AsArray([i \in 1..Len(s) |-> s[Len(s) + 1 - i]])

\* s[from:] taken one point early: s[from - 1:-1].
Tail0_fromXpoint(s, from) == AsArray([i \in 1..(Len(s) - from) |-> s[i + from - 1]])

\* s[from:] of Python (0-based from).
Tail0(s, from) == AsArray([i \in 1..(Len(s) - from) |-> s[i + from]])

\* s[:to] of Python (0-based, exclusive to).
Head0(s, to) == AsArray([i \in 1..to |-> s[i]])

\* The running sums of s[lo..hi] (numpy's cumsum), by halves.  A
\* non-number propagates to every later sum.
RECURSIVE CumSumRange(_, _, _)
CumSumRange(s, lo, hi) ==
    IF lo > hi THEN <<>>
    ELSE IF lo = hi THEN <<s[lo]>>
    ELSE Bind(CumSumRange(s, lo, (lo + hi) \div 2), LAMBDA left :
         Bind(CumSumRange(s, (lo + hi) \div 2 + 1, hi), LAMBDA right :
              left \o [i \in 1..Len(right) |-> FAdd(left[Len(left)], right[i])]))

CumSum(s) == CumSumRange(s, 1, Len(s))

\* sqrt(dx^2 + dy^2), rounded to the resolution.
Hypot(dx, dy) ==
    IF dy = 0 THEN Abs(dx)
    ELSE IF dx = 0 THEN Abs(dy)
    ELSE ISqrt(dx * dx + dy * dy)

\* np.sqrt(l): the segment lengths of the polyline (x, y); empty for fewer
\* than two points.
SegLengths(x, y) ==
    AsArray([i \in 1..(Len(x) - 1) |-> Hypot(x[i + 1] - x[i], y[i + 1] - y[i])])

\* get_cord_distance: cumulative cord length normalised by the total, with
\* a leading 0.  A polyline of zero total length gives 0/0 = NaN entries.
\* (A single point makes u_cord[-1] raise IndexError: see SplineRaises.)
get_cord_distance(x, y) ==
    Bind(SegLengths(x, y), LAMBDA l :
    Bind(CumSum(l), LAMBDA cum :
         <<0>> \o [i \in 1..Len(cum) |-> FDiv(cum[i], cum[Len(cum)])]))

\* make_interp_spline(u_cord, p, axis=1) on the cord distance of (x, y):
\* the interpolating spline, kept as its knots and data.  No knots are
\* computed for fewer than two points (u_cord[-1] raises IndexError).
make_interp_spline(x, y) ==
    [u |-> IF Len(x) < 2 THEN <<>> ELSE get_cord_distance(x, y),
     x |-> x, y |-> y]

\* Whether building the spline raised: get_cord_distance on fewer than two
\* points (IndexError), make_interp_spline on fewer than 4 points, on
\* non-finite abscissae or on repeated abscissae (ValueError).
SplineRaises(spl) ==
    \/ Len(spl.x) < 4
    \/ \E i \in 1..Len(spl.u) : ~IsFinite(spl.u[i])
    \/ \E i \in 1..(Len(spl.u) - 1) : spl.u[i] = spl.u[i + 1]

\* The knot interval used to evaluate at t (the end intervals extrapolate).
SplSeg(u, t) ==
    IF t <= u[1] THEN 1
    ELSE IF t >= u[Len(u)] THEN Len(u) - 1
    ELSE CHOOSE i \in 1..(Len(u) - 1) : u[i] <= t /\ t < u[i + 1]

\* The point at parameter t of the piece of the spline on knot interval i.
SplPiece(spl, i, t) ==
    [x |-> spl.x[i] + RDiv((spl.x[i + 1] - spl.x[i]) * (t - spl.u[i]),
                           spl.u[i + 1] - spl.u[i]),
     y |-> spl.y[i] + RDiv((spl.y[i + 1] - spl.y[i]) * (t - spl.u[i]),
                           spl.u[i + 1] - spl.u[i])]

\* spl(t): the point of the spline at parameter t.
SplEval(spl, t) == Bind(SplSeg(spl.u, t), LAMBDA i : SplPiece(spl, i, t))

\* spl(tt) for an array of parameters: the arrays of the two coordinates.
SplEvalAll(spl, tt) ==
    Bind(AsArray([j \in 1..Len(tt) |-> SplEval(spl, tt[j])]), LAMBDA pts :
         [x |-> AsArray([j \in 1..Len(tt) |-> pts[j].x]),
          y |-> AsArray([j \in 1..Len(tt) |-> pts[j].y])])

\* Number of dense samples cord_spline returns.
NSamples == 200

\* np.linspace(a, b, 200)
linspace(a, b) ==
    AsArray([j \in 1..NSamples |-> a + RDiv((b - a) * (j - 1), NSamples - 1)])

\* The dense samples of a spline: spl(np.linspace(u_cord[0], u_cord[-1], 200)).
SplSamples(spl) ==
    Bind(linspace(spl.u[1], spl.u[Len(spl.u)]), LAMBDA uu : SplEvalAll(spl, uu))

\* cord_spline(x, y): the spline and, unless building it raised, its dense
\* samples (R, Z).
cord_spline(x, y) ==
    Bind(make_interp_spline(x, y), LAMBDA spl :
         IF SplineRaises(spl)
         THEN [raises |-> TRUE, spl |-> spl]
         ELSE Bind(SplSamples(spl), LAMBDA sm :
                   [raises |-> FALSE, spl |-> spl, xs |-> sm.x, ys |-> sm.y]))

\* An OffsetSpec's displacement; offsetx / offsety default to 0.
OffsetX(point) == IF "offsetx" \in DOMAIN point THEN point.offsetx ELSE 0
OffsetY(point) == IF "offsety" \in DOMAIN point THEN point.offsety ELSE 0

\* shift_points(R, Z, offsets): the control points, one per OffsetSpec, in
\* the order of the offsets.
shift_points(R, Z, offsets) ==
    Bind(make_interp_spline(R, Z), LAMBDA spl :
    Bind(SplEvalAll(spl, [i \in 1..Len(offsets) |-> offsets[i].pos]), LAMBDA at :
         [x |-> AsArray([i \in 1..Len(offsets) |-> at.x[i] + OffsetX(offsets[i])]),
          y |-> AsArray([i \in 1..Len(offsets) |-> at.y[i] + OffsetY(offsets[i])])]))

\* The step lengths dl of returnll / returnS: 0 for the first point.
StepLengths(R, Z) ==
    AsArray([i \in 1..Len(R) |->
               IF i = 1 THEN 0 ELSE Hypot(R[i - 1] - R[i], Z[i - 1] - Z[i])])

\* returnll(R, Z): cumulative Euclidean distance from the first point.
returnll(R, Z) == Bind(StepLengths(R, Z), LAMBDA dl : CumSum(dl))

\* ds of returnS: dl * |B| / |Bpol|.  Nothing guards the division.
WeightedStep(dl, B, Bpol) ==
    Bind(Abs(B), LAMBDA b : Bind(Abs(Bpol), LAMBDA bp :
         Bind(FMul(dl, b), LAMBDA w : FDiv(w, bp))))

\* returnS(R, Z, B, Bpol): cumulative distance weighted by |B| / |Bpol|.
returnS(R, Z, B, Bpol) ==
    Bind(StepLengths(R, Z), LAMBDA dl :
    Bind(AsArray([i \in 1..Len(R) |-> WeightedStep(dl[i], B[i], Bpol[i])]),
         LAMBDA ds : CumSum(ds)))

\* An attribute the object does not have (yet).
Absent == [absent |-> TRUE]
Has(obj) == "absent" \notin DOMAIN obj

\* Python's None.
None == [none |-> TRUE]

\* The keys _set_profile gives a profile, and those _populate_profile adds.
ControlKeys == {"x", "y", "xs", "ys"}
PopulatedKeys == {"Xpoint", "R", "Z", "Spol", "Bpol", "Btot", "S"}

\* Morph.__init__: the attributes of the object after construction.
MorphInit(R, Z, Xpoint, Btot, Bpol, S, Spol) ==
    [R |-> R, Z |-> Z, Xpoint |-> Xpoint,
     R_leg |-> Head0(R, Xpoint + 1), Z_leg |-> Head0(Z, Xpoint + 1),
     Btot |-> Btot, Bpol |-> Bpol, S |-> S, Spol |-> Spol]

\* _set_profile(offsets): control points and their dense spline samples;
\* raises when a spline cannot be built (inside shift_points or cord_spline).
set_profile(self, offsets) ==
    IF SplineRaises(make_interp_spline(self.R_leg, self.Z_leg))
    THEN [raises |-> TRUE]
    ELSE Bind(shift_points(self.R_leg, self.Z_leg, offsets), LAMBDA cp :
         Bind(cord_spline(cp.x, cp.y), LAMBDA sm :
              IF sm.raises
              THEN [raises |-> TRUE]
              ELSE [raises |-> FALSE,
                    prof |-> [x |-> cp.x, y |-> cp.y, xs |-> sm.xs, ys |-> sm.ys]]))

\* Line 118: the toroidal field sqrt(Btot^2 - Bpol^2) at one point.
ToroidalField(Btot, Bpol) ==
    Bind(FMul(Btot, Btot), LAMBDA bt2 :
    Bind(FMul(Bpol, Bpol), LAMBDA bp2 :
    Bind(FSub(bt2, bp2), LAMBDA d : FSqrt(d))))

\* Lines 120-123: the total field at a leg point moved from radius R to
\* R_new: the toroidal part scaled by R / R_new, the poloidal part kept.
\* Nothing guards the division by R_new.
RescaledField(Btor, Bpol, R, R_new) ==
    Bind(FDiv(R, R_new), LAMBDA ratio :
    Bind(FMul(Btor, ratio), LAMBDA Btor_new :
    Bind(FMul(Btor_new, Btor_new), LAMBDA bt2 :
    Bind(FMul(Bpol, Bpol), LAMBDA bp2 :
    Bind(FAdd(bt2, bp2), LAMBDA sum : FSqrt(sum))))))

\* Lines 117-128: Btot of the reconstructed profile.
NewBtot(start, R_leg_new) ==
    Bind(AsArray([i \in 1..Len(start.Btot) |->
                    ToroidalField(start.Btot[i], start.Bpol[i])]), LAMBDA Btor :
         AsArray([i \in 1..(start.Xpoint + 1) |->
                    RescaledField(Btor[i], start.Bpol[i],
                                  start.R_leg[i], R_leg_new[i])])
         \o Tail0(start.Btot, start.Xpoint + 1))

\* Lines 103-130 of _populate_profile, given the resampled leg.
Reconstructed(start, prof, leg) ==
    Bind(leg.x \o Tail0(start.R, start.Xpoint + 1), LAMBDA R :
    Bind(leg.y \o Tail0(start.Z, start.Xpoint + 1), LAMBDA Z :
    Bind(NewBtot(start, leg.x), LAMBDA Btot :
         [Xpoint |-> start.Xpoint, R |-> R, Z |-> Z, Spol |-> returnll(R, Z),
          Bpol |-> start.Bpol, Btot |-> Btot,
          S |-> returnS(R, Z, Btot, start.Bpol)] @@ prof)))

\* _populate_profile(prof) against the start profile: the profile with the
\* leg reconstructed on the reference cord distances, the reference tail
\* appended, and Spol, Bpol, Btot, S recomputed.  prof is modified in
\* place: when the spline through the reversed samples raises (line 100),
\* prof["Xpoint"] has already been written.
populate_profile(start, prof) ==
    Bind(get_cord_distance(start.R_leg, start.Z_leg), LAMBDA dist :
    Bind(Rev(prof.xs), LAMBDA rxs :
    Bind(Rev(prof.ys), LAMBDA rys :
    Bind(make_interp_spline(rxs, rys), LAMBDA spl :
         IF SplineRaises(spl)
         THEN [raises |-> TRUE, prof |-> [Xpoint |-> start.Xpoint] @@ prof]
         ELSE Bind(SplEvalAll(spl, dist), LAMBDA leg :
                   [raises |-> FALSE, prof |-> Reconstructed(start, prof, leg)])))))

\* The engine's mutable attributes after a call and the call's outcome.
Outcome(start, end, profiles, status, value) ==
    [start |-> start, end |-> end, profiles |-> profiles,
     status |-> status, value |-> value]

\* A call that raised before changing anything.
Raised(eng, error) == Outcome(eng.start, eng.end, eng.profiles, error, None)

\* set_start_profile(offsets)
set_start_profile(self, eng, offsets) ==
    Bind(set_profile(self, offsets), LAMBDA sp :
         IF sp.raises
         THEN Raised(eng, "ValueError")
         ELSE Outcome([R_leg |-> self.R_leg, Z_leg |-> self.Z_leg,
                       R |-> self.R, Z |-> self.Z, S |-> self.S,
                       Spol |-> self.Spol, Btot |-> self.Btot,
                       Bpol |-> self.Bpol, Xpoint |-> self.Xpoint] @@ sp.prof,
                      eng.end, eng.profiles, "ok", None))

\* Line 48 of set_end_profile, self.end holding the control-point profile:
\* self.start is read first (AttributeError when it was never set).
PopulateEnd(eng, prof) ==
    IF ~Has(eng.start)
    THEN Outcome(eng.start, prof, eng.profiles, "AttributeError", None)
    ELSE Bind(populate_profile(eng.start, prof), LAMBDA pp :
              Outcome(eng.start, pp.prof, eng.profiles,
                      IF pp.raises THEN "ValueError" ELSE "ok", None))

\* set_end_profile(offsets): self.end is assigned the control-point profile
\* first (line 47) and the populated one afterwards (line 48).
set_end_profile(self, eng, offsets) ==
    Bind(set_profile(self, offsets), LAMBDA sp :
         IF sp.raises THEN Raised(eng, "ValueError") ELSE PopulateEnd(eng, sp.prof))

\* The blend with the start control point left in the second term:
\* start + factor * end.
Blend_additive(a, b, factor) ==
    AsArray([i \in 1..Len(a) |-> a[i] + FMul(factor, b[i])])

\* Lines 69-70: the blended control points.
Blend(a, b, factor) ==
    AsArray([i \in 1..Len(a) |-> a[i] + FMul(factor, b[i] - a[i])])

\* Lines 71-74 of morph_between on the blended control points.
MorphFrom(eng, x, y) ==
    Bind(cord_spline(x, y), LAMBDA sm :
         IF sm.raises
         THEN Raised(eng, "ValueError")
         ELSE Bind(populate_profile(eng.start,
                                    [x |-> x, y |-> y, xs |-> sm.xs, ys |-> sm.ys]),
                   LAMBDA pp :
                   IF pp.raises
                   THEN Raised(eng, "ValueError")
                   ELSE Outcome(eng.start, eng.end, eng.profiles, "ok", pp.prof)))

\* morph_between filling the start profile itself instead of a fresh dict
\* (prof = self.start without the copy).
morph_between_inplace(self, eng, factor) ==
    IF ~Has(eng.start) \/ ~Has(eng.end)
    THEN Raised(eng, "AttributeError")
    ELSE IF Len(eng.start.x) # Len(eng.end.x)
    THEN Raised(eng, "ValueError")
    ELSE Bind(Blend(eng.start.x, eng.end.x, factor), LAMBDA x :
         Bind(Blend(eng.start.y, eng.end.y, factor), LAMBDA y :
         Bind(MorphFrom(eng, x, y), LAMBDA m :
              IF m.status # "ok"
              THEN m
              ELSE Bind(m.value @@ eng.start, LAMBDA prof :
                        Outcome(prof, eng.end, eng.profiles, "ok", prof)))))

\* morph_between(factor): a fresh profile; self.start and self.end are read
\* only.
morph_between(self, eng, factor) ==
    IF ~Has(eng.start) \/ ~Has(eng.end)
    THEN Raised(eng, "AttributeError")
    ELSE IF Len(eng.start.x) # Len(eng.end.x)
    THEN Raised(eng, "ValueError")
    ELSE Bind(Blend(eng.start.x, eng.end.x, factor), LAMBDA x :
         Bind(Blend(eng.start.y, eng.end.y, factor), LAMBDA y :
              MorphFrom(eng, x, y)))

\* profiles[k] = v for a dict kept as a function.
DictPut(d, k, v) == [j \in (DOMAIN d) \cup {k} |-> IF j = k THEN v ELSE d[j]]

\* The engine attributes of an outcome.
EngineOf(out) == [start |-> out.start, end |-> out.end, profiles |-> out.profiles]

\* The loop storing, under every factor, the profile of the last factor.
GenerateLoop_lastFactor(self, eng, factors, i, acc) ==
    IF i > Len(factors)
    THEN Outcome(eng.start, eng.end, [set |-> TRUE, map |-> acc], "ok", None)
    ELSE Bind(morph_between(self, eng, factors[Len(factors)]), LAMBDA m :
              IF m.status # "ok"
              THEN Raised(eng, m.status)
              ELSE Outcome(eng.start, eng.end,
                           [set |-> TRUE,
                            map |-> [f \in {factors[j] : j \in 1..Len(factors)} |-> m.value]],
                           "ok", None))

\* The loop of generate_profiles from the i-th factor on: the dict so far is
\* acc; an exception in morph_between leaves the loop.
RECURSIVE GenerateLoop(_, _, _, _, _)
GenerateLoop(self, eng, factors, i, acc) ==
    IF i > Len(factors)
    THEN Outcome(eng.start, eng.end, [set |-> TRUE, map |-> acc], "ok", None)
    ELSE Bind(morph_between(self, eng, factors[i]), LAMBDA m :
              IF m.status # "ok"
              THEN Raised(EngineOf(m), m.status)
              ELSE Bind(EngineOf(m), LAMBDA eng1 :
                   Bind(DictPut(acc, factors[i], m.value), LAMBDA acc1 :
                        GenerateLoop(self, eng1, factors, i + 1, acc1))))

\* generate_profiles(factors): self.profiles is assigned after the loop.
generate_profiles(self, eng, factors) ==
    Bind([k \in {} |-> None], LAMBDA empty :
         GenerateLoop(self, eng, factors, 1, empty))

\* ----------------------------------------------------------- sensitivity

\* get_sensitivity works on other magnitudes than the geometry: Crel is
\* compared with a tolerance of 1e-6, so Crel values are held in units of
\* 1e-7 and poloidal distances in units of 0.1; fluctuation, location and
\* the returned sensitivity are held in units of 1 / Scale.
CrelScale == 10 * Scale * Scale

\* The 1e-6 of line 207.
Tolerance == CrelScale \div (Scale * Scale)

\* a * f for a factor f held in units of 1 / Scale (no intermediate overflow).
MulScale(a, f) == (a \div Scale) * f + RDiv((a % Scale) * f, Scale)

\* dropna looking at the Crel column only.
dropna_crel(crel, spol) ==
    Bind(SelectSeq([i \in 1..Len(crel) |-> [crel |-> crel[i], spol |-> spol[i]]],
                   LAMBDA row : row.crel # NaN), LAMBDA rows :
         [crel |-> AsArray([i \in 1..Len(rows) |-> rows[i].crel]),
          spol |-> AsArray([i \in 1..Len(rows) |-> rows[i].spol])])

\* xy.dropna(): the rows (crel, spol) without those holding a missing value
\* (NaN) in either column, in their order.
dropna(crel, spol) ==
    Bind(SelectSeq([i \in 1..Len(crel) |-> [crel |-> crel[i], spol |-> spol[i]]],
                   LAMBDA row : row.crel # NaN /\ row.spol # NaN), LAMBDA rows :
         [crel |-> AsArray([i \in 1..Len(rows) |-> rows[i].crel]),
          spol |-> AsArray([i \in 1..Len(rows) |-> rows[i].spol])])

\* Whether InterpolatedUnivariateSpline(x, y) raises: fewer than 4 points, or
\* x not strictly increasing (a missing value compares false).
USplineRaises(x) ==
    \/ Len(x) < 4
    \/ \E i \in 1..Len(x) : ~IsFinite(x[i])
    \/ \E i \in 1..(Len(x) - 1) : x[i] >= x[i + 1]

\* InterpolatedUnivariateSpline(x, y)(t): the interpolating cubic spline,
\* extrapolated outside the data (ext = 0).
USplEval(x, y, t) ==
    Bind(SplSeg(x, t), LAMBDA i :
         y[i] + RDiv((y[i + 1] - y[i]) * (t - x[i]), x[i + 1] - x[i]))

\* Lines 202-210 with the fluctuated Crel in the test of line 207.
SensitivityOf_fluctuated(xy, fluctuation, location) ==
    Bind(xy.spol[Len(xy.spol)], LAMBDA Spol_total :
    Bind(MulScale(Spol_total, location), LAMBDA Spol_at_loc :
    Bind(USplEval(xy.spol, xy.crel, Spol_at_loc), LAMBDA Crel_at_loc :
    Bind(MulScale(Crel_at_loc, fluctuation), LAMBDA Crel_new :
         IF Crel_new - xy.crel[1] < -Tolerance
         THEN [status |-> "ok", line |-> 208, value |-> Scale, xy |-> xy]
         ELSE Bind(USplEval(xy.crel, xy.spol, Crel_new), LAMBDA Spol_new :
                   [status |-> "ok", line |-> 210,
                    value |-> FDiv(Spol_new, Spol_total), xy |-> xy])))))

\* Lines 202-210 on the filtered rows xy.
SensitivityOf(xy, fluctuation, location) ==
    Bind(xy.spol[Len(xy.spol)], LAMBDA Spol_total :
    Bind(MulScale(Spol_total, location), LAMBDA Spol_at_loc :
    Bind(USplEval(xy.spol, xy.crel, Spol_at_loc), LAMBDA Crel_at_loc :
         IF Crel_at_loc - xy.crel[1] < -Tolerance
         THEN [status |-> "ok", line |-> 208, value |-> Scale, xy |-> xy]
         ELSE Bind(USplEval(xy.crel, xy.spol, MulScale(Crel_at_loc, fluctuation)),
                   LAMBDA Spol_new :
                   [status |-> "ok", line |-> 210,
                    value |-> FDiv(Spol_new, Spol_total), xy |-> xy]))))

\* get_sensitivity(crel_trim, SpolPlot, fluctuation, location): the filtered
\* rows, the line that set the sensitivity and the value returned (the
\* integer 1 of line 208 is Scale).
get_sensitivity(crel_trim, SpolPlot, fluctuation, location) ==
    Bind(dropna(crel_trim, SpolPlot), LAMBDA xy :
         IF USplineRaises(xy.crel)
         THEN [status |-> "ValueError", line |-> 199, value |-> None, xy |-> xy]
         ELSE IF USplineRaises(xy.spol)
         THEN [status |-> "ValueError", line |-> 200, value |-> None, xy |-> xy]
         ELSE SensitivityOf(xy, fluctuation, location))

\* ---------------------------------------------------------------- inputs

\* Largest uniform displacement (in program units) of the control points.
MaxShift == 1
\* Blend factors are the halves 0, 1/2, ..., MaxFactorHalves / 2.
MaxFactorHalves == 3
\* Longest factor list handed to generate_profiles.
MaxGen == 2

Sc(seq) == AsArray([i \in 1..Len(seq) |-> seq[i] * Scale])
Const(n, v) == AsArray([i \in 1..n |-> v])

\* A geometry whose S and Spol are those returnS and returnll give.
Geometry(R, Z, Xpoint, Btot, Bpol) ==
    MorphInit(R, Z, Xpoint, Btot, Bpol, returnS(R, Z, Btot, Bpol), returnll(R, Z))

\* The straight leg of the specification's scenario: R = 0..4, Z = 0,
\* Xpoint = 4, Bpol = 1, Btot = sqrt(2).
StraightLeg ==
    Geometry(Sc(<<0, 1, 2, 3, 4>>), Const(5, 0), 4,
             Const(5, ISqrt(2 * Scale * Scale)), Const(5, Scale))

\* A leg with unevenly spaced points and a two-point tail above the X-point.
TailedLeg ==
    Geometry(Sc(<<1, 2, 4, 5, 6, 7>>), Sc(<<0, 0, 0, 0, 1, 2>>), 3,
             <<1000, 1000, 1200, 1300, 1500, 1500>>,
             <<500, 500, 600, 800, 1000, 1000>>)

\* A leg on which the poloidal field vanishes at one point.
SingularLeg ==
    Geometry(Sc(<<1, 2, 4, 5, 6>>), Sc(<<0, 0, 0, 0, 1>>), 3,
             Const(5, 1200), <<1000, 0, 1000, 1000, 1000>>)

Geometries == {StraightLeg, TailedLeg, SingularLeg}

\* Normalised positions of the control points, X-point (1) to target (0).
Positions == <<Scale, (3 * Scale) \div 4, Scale \div 4, 0>>

\* OffsetSpec records: without displacement the optional keys are left out.
OffsetSpec(pos, d) ==
    IF d = 0 THEN [pos |-> pos]
    ELSE [pos |-> pos, offsetx |-> d * Scale, offsety |-> d * Scale]

\* The offsets with every control point displaced by d, X-point first.
Shifted(d) == [i \in 1..4 |-> OffsetSpec(Positions[i], d)]

\* The same positions given target first, no displacement.
TargetFirst == [i \in 1..4 |-> OffsetSpec(Positions[5 - i], 0)]

\* Three control points only: too few for the cubic spline.
TooFew == [i \in 1..3 |-> OffsetSpec(Positions[i], 0)]

OffsetSeqs == {Shifted(d) : d \in 0..MaxShift} \cup {TargetFirst, TooFew}

Factors == {(k * Scale) \div 2 : k \in 0..MaxFactorHalves}

\* The inputs of the specification with generate_profiles.
GenStartOffsets == {Shifted(0)}
GenEndOffsets == {Shifted(d) : d \in 1..MaxShift} \cup {TargetFirst}
GenFactors == {0, Scale \div 2}
FactorSeqs == UNION {[1..n -> GenFactors] : n \in 0..MaxGen}

\* Most rows of the solver's output that hold a missing value.
MaxMissing == 3

\* Poloidal positions of the solver's rows.
SolverSpol == <<0, 10, 20, 40, 50, 70, 80>>

\* Crel rising with Spol: from 1.0 by 0.005 per unit of SolverSpol; from
\* 2e-6 by 4e-8; and falling from 1.0.
SolverCrel ==
    {AsArray([i \in 1..Len(SolverSpol) |-> CrelScale + 50 * Scale * SolverSpol[i]]),
     AsArray([i \in 1..Len(SolverSpol) |-> 20 + (4 * SolverSpol[i]) \div 10]),
     AsArray([i \in 1..Len(SolverSpol) |-> 2 * CrelScale - 50 * Scale * SolverSpol[i]])}

\* Which value of a row is missing: none, Crel, Spol.
Masks ==
    {m \in [1..Len(SolverSpol) -> {"none", "crel", "spol"}] :
        Cardinality({i \in 1..Len(SolverSpol) : m[i] # "none"}) <= MaxMissing}

Masked(seq, m, col) == AsArray([i \in 1..Len(seq) |-> IF m[i] = col THEN NaN ELSE seq[i]])

Fluctuations == {(11 * Scale) \div 10, (3 * Scale) \div 2}
Locations == {0, Scale \div 2, Scale}

\* ---------------------------------------------------------------- state

\* self: the attributes set by __init__; start, end, profiles: the
\* attributes set later; ret: the last call, its argument and its outcome.
\* sens: a call of get_sensitivity, its arguments and, once it has
\* returned, its outcome.
VARIABLES self, start, end, profiles, ret, sens

vars == <<self, start, end, profiles, ret, sens>>

Engine == [start |-> start, end |-> end, profiles |-> profiles]

Init ==
    /\ self \in Geometries
    /\ start = Absent
    /\ end = Absent
    /\ profiles = [set |-> FALSE, map |-> [k \in {} |-> None]]
    /\ ret = [op |-> "init", arg |-> None, status |-> "ok", value |-> None]
    /\ sens = [pc |-> "idle"]

Apply(op, arg, out) ==
    /\ start' = out.start
    /\ end' = out.end
    /\ profiles' = out.profiles
    /\ ret' = [op |-> op, arg |-> arg, status |-> out.status, value |-> out.value]
    /\ UNCHANGED <<self, sens>>

SetStartOf(inputs) ==
    \E offsets \in inputs :
        \E out \in {set_start_profile(self, Engine, offsets)} :
            Apply("set_start_profile", offsets, out)

SetEndOf(inputs) ==
    \E offsets \in inputs :
        \E out \in {set_end_profile(self, Engine, offsets)} :
            Apply("set_end_profile", offsets, out)

MorphBetweenOf(inputs) ==
    \E factor \in inputs :
        \E out \in {morph_between(self, Engine, factor)} :
            Apply("morph_between", factor, out)

GenerateProfiles ==
    \E factors \in FactorSeqs :
        \E out \in {generate_profiles(self, Engine, factors)} :
            Apply("generate_profiles", factors, out)

\* The engine with its four operations, on one geometry.
InitOne == Init /\ self = TailedLeg
SetStartOne == SetStartOf(GenStartOffsets)
SetEndOne == SetEndOf(GenEndOffsets)
MorphBetweenOne == MorphBetweenOf(GenFactors)
Next == SetStartOne \/ SetEndOne \/ MorphBetweenOne \/ GenerateProfiles
Spec == InitOne /\ [][Next]_vars

\* The profile operations on every geometry and every offset sequence.
SetStart == SetStartOf(OffsetSeqs)
SetEnd == SetEndOf(OffsetSeqs)
MorphBetween == MorphBetweenOf(Factors)
NextLeg == SetStart \/ SetEnd \/ MorphBetween
SpecLeg == Init /\ [][NextLeg]_vars

\* The sensitivity routine: the arguments are drawn with the call, the one
\* step is the body of get_sensitivity.
InitSens ==
    /\ self = TailedLeg
    /\ start = Absent
    /\ end = Absent
    /\ profiles = [set |-> FALSE, map |-> [k \in {} |-> None]]
    /\ ret = [op |-> "init", arg |-> None, status |-> "ok", value |-> None]
    /\ \E crel \in SolverCrel, m \in Masks, f \in Fluctuations, loc \in Locations :
           sens = [pc |-> "call",
                   crel_trim |-> Masked(crel, m, "crel"),
                   SpolPlot |-> Masked(SolverSpol, m, "spol"),
                   fluctuation |-> f, location |-> loc]

GetSensitivity ==
    /\ sens.pc = "call"
    /\ \E out \in {get_sensitivity(sens.crel_trim, sens.SpolPlot,
                                   sens.fluctuation, sens.location)} :
           sens' = [pc |-> "return", crel_trim |-> sens.crel_trim,
                    SpolPlot |-> sens.SpolPlot, fluctuation |-> sens.fluctuation,
                    location |-> sens.location, out |-> out]
    /\ UNCHANGED <<self, start, end, profiles, ret>>

NextSens == GetSensitivity
SpecSens == InitSens /\ [][NextSens]_vars

\* ------------------------------------------------------------- properties

\* Agreement of coordinates within the resampling tolerance (0.002).
Tol == Scale \div 500
Close(a, b) ==
    /\ Len(a) = Len(b)
    /\ \A i \in 1..Len(a) : IsFinite(a[i]) /\ IsFinite(b[i]) /\ Abs(a[i] - b[i]) <= Tol

\* A profile that _populate_profile completed.
Populated(prof) == Has(prof) /\ PopulatedKeys \subseteq DOMAIN prof

\* The control points of offsets of zero displacement, X-point first.
OnLeg(prof) ==
    /\ Has(prof)
    /\ \E cp \in {shift_points(self.R_leg, self.Z_leg, Shifted(0))} :
           prof.x = cp.x /\ prof.y = cp.y

\* The last call was morph_between(factor) and returned a profile.
Morphed(factor) ==
    ret.op = "morph_between" /\ ret.status = "ok" /\ ret.arg = factor

\* C1: once set_start_profile and set_end_profile have succeeded, a call of
\* morph_between or generate_profiles leaves the start profile, the end
\* profile and the reference geometry exactly as they were.
C1_MorphKeepsBaseline ==
    [][(/\ Has(start) /\ Populated(end)
        /\ ret'.op \in {"morph_between", "generate_profiles"})
       => (start' = start /\ end' = end /\ self' = self)]_vars

\* A profile was morphed strictly between start and end, both still held.
C1_Witness ==
    /\ Has(start) /\ Populated(end)
    /\ ret.op = "morph_between" /\ ret.status = "ok" /\ ret.arg = Scale \div 2
    /\ ret.value.x # start.x

\* Whether a profile keeps the reference layout: all sequences as long as
\* the reference, the points beyond the X-point and the whole of Bpol those
\* of the reference, the X-point index that of start.
KeepsLayout(prof) ==
    /\ \A k \in {"R", "Z", "Btot", "Bpol", "Spol", "S"} : Len(prof[k]) = Len(self.R)
    /\ \A i \in (self.Xpoint + 2)..Len(self.R) :
           /\ prof.R[i] = self.R[i]
           /\ prof.Z[i] = self.Z[i]
           /\ prof.Btot[i] = self.Btot[i]
    /\ prof.Bpol = self.Bpol
    /\ prof.Xpoint = start.Xpoint

\* C2: every profile reconstructed by set_end_profile or morph_between has
\* R, Z, Btot, Bpol, Spol and S of the reference length, the reference's R, Z
\* and Btot at every index beyond the X-point, the reference's Bpol
\* everywhere, and start's X-point index.
C2_ReferenceLayout ==
    /\ (Populated(end) /\ Has(start)) => KeepsLayout(end)
    /\ (ret.op = "morph_between" /\ ret.status = "ok") => KeepsLayout(ret.value)

\* A leg with points beyond the X-point was morphed away from the reference.
C2_Witness ==
    /\ Len(self.R) > self.Xpoint + 2
    /\ Populated(end) /\ end.R # self.R
    /\ ret.op = "morph_between" /\ ret.status = "ok" /\ ret.value.R # self.R

\* C3: after generate_profiles(factors) the dict holds exactly the requested
\* factors, and the profile under f is the one morph_between(f) gives for
\* the same start and end, whatever the other factors and their order.
C3_GenerateIsPointwise ==
    [][(ret'.op = "generate_profiles" /\ ret'.status = "ok")
       => /\ profiles'.set
          /\ DOMAIN profiles'.map = {ret'.arg[i] : i \in 1..Len(ret'.arg)}
          /\ \A f \in DOMAIN profiles'.map :
                 \E m \in {morph_between(self, Engine, f)} :
                     m.status = "ok" /\ profiles'.map[f] = m.value]_vars

\* Two different factors were generated into two different profiles.
C3_Witness ==
    /\ ret.op = "generate_profiles" /\ ret.status = "ok"
    /\ Len(ret.arg) = 2 /\ ret.arg[1] # ret.arg[2]
    /\ profiles.set /\ DOMAIN profiles.map = {ret.arg[1], ret.arg[2]}
    /\ profiles.map[ret.arg[1]] # profiles.map[ret.arg[2]]

\* C4: for any start and end offsets, morph_between(0) gives the R and Z of
\* the start profile (the reference geometry) at every index.
C4_ZeroFactorIsStart ==
    Morphed(0) => (Close(ret.value.R, start.R) /\ Close(ret.value.Z, start.Z))

\* C5: for any start and end offsets, morph_between(1) gives the R and Z
\* of the end profile.
C5_UnitFactorIsEnd ==
    (Morphed(Scale) /\ Populated(end))
        => (Close(ret.value.R, end.R) /\ Close(ret.value.Z, end.Z))

\* morph_between(1) between a displaced start and a different end.
C5_Witness ==
    /\ Morphed(Scale) /\ Populated(end)
    /\ ~OnLeg(start) /\ end.x # start.x /\ end.R # start.R

\* C6: on the straight leg R = 0..4, Z = 0, Btot = sqrt 2, Bpol = 1 with the
\* X-point at the last index, the profile reconstructed from zero offsets
\* has the reference R and Z, Spol = 0, 1, 2, 3, 4 and the finite
\* S = k * sqrt 2.
C6_StraightLegScenario ==
    (self = StraightLeg /\ Populated(end) /\ OnLeg(end))
        => /\ Close(end.R, self.R)
           /\ Close(end.Z, self.Z)
           /\ Close(end.Spol, [k \in 1..5 |-> (k - 1) * Scale])
           /\ Close(end.S, [k \in 1..5 |-> (k - 1) * FSqrt(2 * Scale)])

\* C8: with a zero Bpol on the leg, set_end_profile and morph_between end
\* in an error and no profile is produced.
C8_ZeroBpolRaises ==
    (\E i \in 1..(self.Xpoint + 1) : self.Bpol[i] = 0)
        => /\ ~Populated(end)
           /\ ret.op \in {"set_end_profile", "morph_between"} => ret.status # "ok"

\* C10: whenever the engine holds an end profile, that profile has all of
\* R, Z, Btot, Bpol, S, Spol and Xpoint.
C10_EndIsPopulated == Has(end) => Populated(end)

\* The rows of the call that miss no value, and the j-th of them.
Complete == {i \in 1..Len(sens.crel_trim) :
                sens.crel_trim[i] # NaN /\ sens.SpolPlot[i] # NaN}
NthComplete(j) == CHOOSE i \in Complete : Cardinality({k \in Complete : k <= i}) = j

\* C7: the sensitivity is the integer 1 exactly when the Crel interpolated
\* at location * Spol_total lies more than 1e-6 below the first Crel of the
\* filtered rows; otherwise it is the interpolated Spol of the fluctuated
\* Crel over Spol_total.  The fluctuation has no part in the choice.
C7_BranchOnCrelAtLocation ==
    (sens.pc = "return" /\ sens.out.status = "ok")
        => \E xy \in {sens.out.xy} :
           \E Spol_total \in {xy.spol[Len(xy.spol)]} :
           \E at \in {USplEval(xy.spol, xy.crel, MulScale(Spol_total, sens.location))} :
              /\ (at - xy.crel[1] < -Tolerance)
                    => (sens.out.line = 208 /\ sens.out.value = Scale)
              /\ ~(at - xy.crel[1] < -Tolerance)
                    => /\ sens.out.line = 210
                       /\ sens.out.value =
                              FDiv(USplEval(xy.crel, xy.spol,
                                            MulScale(at, sens.fluctuation)), Spol_total)
              /\ \A f \in Fluctuations :
                     get_sensitivity(sens.crel_trim, sens.SpolPlot, f,
                                     sens.location).line = sens.out.line

\* The sensitivity was set to 1 although the fluctuated Crel lies above the
\* first filtered Crel.
C7_Witness ==
    /\ sens.pc = "return" /\ sens.out.status = "ok" /\ sens.out.line = 208
    /\ \E xy \in {sens.out.xy} :
           MulScale(USplEval(xy.spol, xy.crel,
                             MulScale(xy.spol[Len(xy.spol)], sens.location)),
                    sens.fluctuation) >= xy.crel[1]

\* C9: the rows the sensitivity is computed from are exactly the rows of
\* crel_trim and SpolPlot in which neither value is missing, paired as they
\* were and in their order.
C9_PairwiseFilter ==
    sens.pc = "return"
        => /\ Len(sens.out.xy.crel) = Cardinality(Complete)
           /\ Len(sens.out.xy.spol) = Cardinality(Complete)
           /\ \A j \in 1..Cardinality(Complete) :
                  /\ sens.out.xy.crel[j] = sens.crel_trim[NthComplete(j)]
                  /\ sens.out.xy.spol[j] = sens.SpolPlot[NthComplete(j)]

\* A sensitivity computed although a Crel and, in another row, an Spol
\* were missing between complete rows.
C9_Witness ==
    /\ sens.pc = "return" /\ sens.out.status = "ok"
    /\ \E i, j \in 2..(Len(sens.crel_trim) - 1) :
           i # j /\ sens.crel_trim[i] = NaN /\ sens.SpolPlot[j] = NaN
    /\ 1 \in Complete
====
